---- MODULE Spec2Model ----
(***************************************************************************)
(* A model of the Finvasia live broker of PyAlgoMate                       *)
(* (src/pyalgomate/brokers/finvasia/broker.py): the order registry of      *)
(* LiveBroker, the polling thread TradeMonitor, the hand-off queue between *)
(* them, and the engine operations submitOrder, cancelOrder, dispatch,     *)
(* start, stop and refreshAccountBalance.                                  *)
(*                                                                         *)
(* The brokerage (NorenApi) is the environment: it holds one remote order  *)
(* per successful place_order, moves it through its statuses, and answers  *)
(* every call with one of the outcomes the client library can produce.     *)
(* Quantities are whole shares, so QuantityTraits.roundQuantity (two       *)
(* decimals) leaves every value of the model as it is.  Prices are carried *)
(* through by the code and read by no decision; they are left out.         *)
(***************************************************************************)
EXTENDS Integers, Sequences, FiniteSets, TLC

\* ---------------------------------------------------------------- bounds
NumOrders == 2
MaxQty == 2
MaxPolls == 2
MaxClock == 3
MaxQueue == 2

\* order.getId() of an order that was never submitted (None)
NoId == 0
\* the value None of an optional field
None == "None"

\* the dates (day of month, month) the session can run on
Days == {<<5, 11>>, <<20, 11>>}

VARIABLES
    orders,         \* local Order objects: state, id, quantity, filled
    activeOrders,   \* LiveBroker.__activeOrders: id -> order
    notes,          \* per order, the OrderEvents passed to notifyOrderEvent
    brokerStop,     \* LiveBroker.__stop
    lastOp,         \* the last engine call: the exception it ended in, the gateway
                    \* calls it made with their answers, the trades it went through
    remote,         \* the brokerage's orders
    clock,          \* the brokerage's time of day
    today,          \* the session's date
    monPc,          \* TradeMonitor thread: new, idle, fetched, done
    monStop,        \* TradeMonitor.__stop
    lastTradeTime,  \* TradeMonitor.__lastTradeTime
    queue,          \* TradeMonitor.__queue
    book,           \* the order book the running cycle fetched
    polls,          \* poll cycles begun so far
    monFailed       \* the last cycle of run ended in its except branch

\* the strategy's orders, and the order numbers (norenordno) the brokerage can
\* hand out
Orders == DOMAIN orders
Ids == DOMAIN remote

vars == <<orders, activeOrders, notes, brokerStop, lastOp, remote, clock, today,
          monPc, monStop, lastTradeTime, queue, book, polls, monFailed>>

engineVars == <<orders, activeOrders, notes, brokerStop, lastOp>>
remoteVars == <<remote, clock>>
monitorVars == <<monPc, monStop, lastTradeTime, queue, book, polls, monFailed>>

\* ------------------------------------------------------- time and parsing
\* A timestamp string "HH:MM:SS dd-mm-YYYY" is <<hms, dd, mm>>; a datetime is
\* <<month, day, hms>> (the year is the same throughout).
Stamp(t) == <<t, today[1], today[2]>>

\* TradeEvent.getDateTime: strptime(norentm, '%H:%M:%S %d-%m-%Y')
TradeEvent_getDateTime(e) == <<e.norentm[3], e.norentm[2], e.norentm[1]>>

\* OrderResponse.getDateTime: strptime(request_time, "%H:%M:%S %m-%d-%Y"): the
\* first date field is read as the month, and ValueError is raised when it is
\* no month.
OrderResponse_getDateTime_raises(s) == s[2] \notin 1..12

OrderResponse_getDateTime(s) == <<s[2], s[3], s[1]>>

\* datetime comparison
DtLess(a, b) ==
    \/ a[1] < b[1]
    \/ a[1] = b[1] /\ a[2] < b[2]
    \/ a[1] = b[1] /\ a[2] = b[2] /\ a[3] < b[3]

DtLeq(a, b) == ~DtLess(b, a)

\* sorted(ret, key=...): Python's sort is stable
RECURSIVE InsertByTime(_, _)
InsertByTime(s, e) ==
    IF s = <<>> THEN <<e>>
    ELSE IF DtLess(TradeEvent_getDateTime(e), TradeEvent_getDateTime(s[Len(s)]))
         THEN Append(InsertByTime(SubSeq(s, 1, Len(s) - 1), e), s[Len(s)])
         ELSE Append(s, e)

\* SortedByTime leaving the trades in the order of the book
SortedByTime_NoSort(s) == s

RECURSIVE SortedByTime(_)
SortedByTime(s) ==
    IF s = <<>> THEN <<>>
    ELSE InsertByTime(SortedByTime(SubSeq(s, 1, Len(s) - 1)), s[Len(s)])

\* ------------------------------------------- pyalgotrade's broker.Order
\* The engine code works on a record b of its own state:
\*   b.orders, b.activeOrders, b.notes, and b.exc, the exception in flight
\*   ("" when there is none).  Every statement is skipped once b.exc is set.
Raise(b, e) == [b EXCEPT !.exc = e]

\* Order.VALID_TRANSITIONS
VALID_TRANSITIONS(s) ==
    CASE s = "INITIAL" -> {"SUBMITTED", "CANCELED"}
      [] s = "SUBMITTED" -> {"ACCEPTED", "CANCELED"}
      [] s = "ACCEPTED" -> {"PARTIALLY_FILLED", "FILLED", "CANCELED"}
      [] s = "PARTIALLY_FILLED" -> {"PARTIALLY_FILLED", "FILLED", "CANCELED"}
      [] OTHER -> {}

\* Order.switchState
switchState(b, o, newState) ==
    IF b.exc # "" THEN b
    ELSE IF newState \notin VALID_TRANSITIONS(b.orders[o].state)
         THEN Raise(b, "Invalid order state transition")
         ELSE [b EXCEPT !.orders[o].state = newState]

\* Order.getRemaining
getRemaining(ord) == ord.quantity - ord.filled

\* Order.isActive
isActive(ord) == ord.state \notin {"CANCELED", "FILLED"}

\* Order.addExecutionInfo with an execution of the given quantity
addExecutionInfo(b, o, quantity) ==
    IF b.exc # "" THEN b
    ELSE IF quantity > getRemaining(b.orders[o])
         THEN Raise(b, "Invalid fill size")
         ELSE LET b1 == [b EXCEPT !.orders[o].filled = @ + quantity]
              IN  IF getRemaining(b1.orders[o]) = 0
                  THEN switchState(b1, o, "FILLED")
                  ELSE switchState(b1, o, "PARTIALLY_FILLED")

\* Order.setSubmitted
setSubmitted(b, o, orderId) ==
    IF b.exc # "" THEN b
    ELSE IF ~(b.orders[o].id = NoId \/ b.orders[o].id = orderId)
         THEN Raise(b, "AssertionError")
         ELSE [b EXCEPT !.orders[o].id = orderId]

\* Broker.notifyOrderEvent(OrderEvent(order, type, info)).  info is None, a
\* reason, or "OrderExecutionInfo" with the quantity of the execution.
notifyOrderEvent(b, o, type, info, quantity) ==
    IF b.exc # "" THEN b
    ELSE [b EXCEPT !.notes[o] =
              Append(@, [type |-> type, info |-> info, quantity |-> quantity])]


\* ------------------------------------------------------------ LiveBroker
\* _registerOrder without its first assertion: an order number already
\* registered is overwritten
_registerOrder_NoAssert(b, o) ==
    IF b.exc # "" THEN b
    ELSE IF b.orders[o].id = NoId THEN Raise(b, "AssertionError")
    ELSE [b EXCEPT !.activeOrders =
              [i \in DOMAIN b.activeOrders \cup {b.orders[o].id} |->
                  IF i = b.orders[o].id THEN o ELSE b.activeOrders[i]]]

\* LiveBroker._registerOrder
_registerOrder(b, o) ==
    IF b.exc # "" THEN b
    ELSE IF b.orders[o].id \in DOMAIN b.activeOrders THEN Raise(b, "AssertionError")
    ELSE IF b.orders[o].id = NoId THEN Raise(b, "AssertionError")
    ELSE [b EXCEPT !.activeOrders =
              [i \in DOMAIN b.activeOrders \cup {b.orders[o].id} |->
                  IF i = b.orders[o].id THEN o ELSE b.activeOrders[i]]]

\* _unregisterOrder without the del: the assertions pass and the entry stays
_unregisterOrder_NoDel(b, o) ==
    IF b.exc # "" THEN b
    ELSE IF b.orders[o].id \notin DOMAIN b.activeOrders THEN Raise(b, "AssertionError")
    ELSE IF b.orders[o].id = NoId THEN Raise(b, "AssertionError")
    ELSE b

\* LiveBroker._unregisterOrder
_unregisterOrder(b, o) ==
    IF b.exc # "" THEN b
    ELSE IF b.orders[o].id \notin DOMAIN b.activeOrders THEN Raise(b, "AssertionError")
    ELSE IF b.orders[o].id = NoId THEN Raise(b, "AssertionError")
    ELSE [b EXCEPT !.activeOrders =
              [i \in DOMAIN b.activeOrders \ {b.orders[o].id} |-> b.activeOrders[i]]]

\* ExecutionQuantity with the operands of the subtraction swapped
ExecutionQuantity_Swapped(ord, trade) == ord.filled - trade.fillshares

\* ExecutionQuantity taking the cumulative quantity for the quantity of the execution
ExecutionQuantity_Cumulative(ord, trade) == trade.fillshares

\* the quantity of the execution _onTrade builds for a COMPLETE trade
ExecutionQuantity(ord, trade) == trade.fillshares - ord.filled

\* the event info _onTrade gives the CANCELED event of a rejected or cancelled trade
CanceledEventInfo(trade) == None

\* _onTrade taking every status but COMPLETE for a cancellation
_onTrade_ElseCancels(b, o, trade) ==
    IF b.exc # "" THEN b
    ELSE IF trade.status # "COMPLETE" THEN
        notifyOrderEvent(switchState(_unregisterOrder(b, o), o, "CANCELED"),
                         o, "CANCELED", CanceledEventInfo(trade), 0)
    ELSE
        LET q  == ExecutionQuantity(b.orders[o], trade)
            b1 == addExecutionInfo(b, o, q)
            b2 == IF b1.exc = "" /\ ~isActive(b1.orders[o])
                  THEN _unregisterOrder(b1, o) ELSE b1
        IN  notifyOrderEvent(b2, o,
                IF b2.orders[o].state = "FILLED" THEN "FILLED" ELSE "PARTIALLY_FILLED",
                "OrderExecutionInfo", q)

\* LiveBroker._onTrade
_onTrade(b, o, trade) ==
    IF b.exc # "" THEN b
    ELSE IF trade.status \in {"REJECTED", "CANCELED"} THEN
        notifyOrderEvent(switchState(_unregisterOrder(b, o), o, "CANCELED"),
                         o, "CANCELED", CanceledEventInfo(trade), 0)
    ELSE IF trade.status = "COMPLETE" THEN
        LET q  == ExecutionQuantity(b.orders[o], trade)
            b1 == addExecutionInfo(b, o, q)
            b2 == IF b1.exc = "" /\ ~isActive(b1.orders[o])
                  THEN _unregisterOrder(b1, o) ELSE b1
        IN  notifyOrderEvent(b2, o,
                IF b2.orders[o].state = "FILLED" THEN "FILLED" ELSE "PARTIALLY_FILLED",
                "OrderExecutionInfo", q)
    ELSE b

\* ApplyTrade looking the order up among all the orders, registered or not
ApplyTrade_AnyOrder(b, trade) ==
    IF b.exc # "" THEN b
    ELSE LET b1 == [b EXCEPT !.applied = Append(@, trade)]
             os == {o \in DOMAIN b.orders : b.orders[o].id = trade.norenordno}
         IN  IF os # {}
             THEN _onTrade(b1, CHOOSE o \in os : TRUE, trade)
             ELSE b1

\* ApplyTrade looking the order up with __activeOrders[...]: a trade of an
\* order that is not registered raises KeyError
ApplyTrade_KeyError(b, trade) ==
    IF b.exc # "" THEN b
    ELSE LET b1 == [b EXCEPT !.applied = Append(@, trade)]
         IN  IF trade.norenordno \in DOMAIN b.activeOrders
             THEN _onTrade(b1, b.activeOrders[trade.norenordno], trade)
             ELSE Raise(b1, "KeyError")

\* LiveBroker._onUserTrades: the body of the loop, for one trade
ApplyTrade(b, trade) ==
    IF b.exc # "" THEN b
    ELSE LET b1 == [b EXCEPT !.applied = Append(@, trade)]
         IN  IF trade.norenordno \in DOMAIN b.activeOrders
             THEN _onTrade(b1, b.activeOrders[trade.norenordno], trade)
             ELSE b1

\* LiveBroker._onUserTrades
RECURSIVE _onUserTrades(_, _)
_onUserTrades(b, trades) ==
    IF trades = <<>> THEN b
    ELSE _onUserTrades(ApplyTrade(b, Head(trades)), Tail(trades))

\* AcceptOrder notifying without the switch of state
AcceptOrder_NoSwitch(b, o) ==
    IF b.exc # "" THEN b
    ELSE IF b.orders[o].state = "SUBMITTED"
         THEN notifyOrderEvent(b, o, "ACCEPTED", None, 0)
         ELSE b

\* LiveBroker.dispatch, the body of the first loop, for one registered order
AcceptOrder(b, o) ==
    IF b.exc # "" THEN b
    ELSE IF b.orders[o].state = "SUBMITTED"
         THEN notifyOrderEvent(switchState(b, o, "ACCEPTED"), o, "ACCEPTED", None, 0)
         ELSE b

\* LiveBroker.dispatch, the first loop, over list(self.__activeOrders.values()):
\* a dict keeps the order of insertion, which is the order of the order numbers
RECURSIVE AcceptSubmitted(_, _)
AcceptSubmitted(b, ids) ==
    IF ids = {} THEN b
    ELSE LET i == CHOOSE j \in ids : \A k \in ids : j <= k
         IN  AcceptSubmitted(AcceptOrder(b, b.activeOrders[i]), ids \ {i})

\* the engine's state as a record at the start of a call: no exception in
\* flight (b.exc: what the call ends in, "" for a normal return), no gateway
\* function called yet (b.calls), no trade gone through yet (b.applied)
Broker ==
    [orders |-> orders, activeOrders |-> activeOrders, notes |-> notes,
     stop |-> brokerStop, exc |-> "", calls |-> {}, applied |-> <<>>]

\* a call of the gateway function f, which answers res
Call(b, f, res) == IF b.exc # "" THEN b ELSE [b EXCEPT !.calls = @ \cup {<<f, res>>}]

\* the gateway functions a call made
Called(calls) == {c[1] : c \in calls}

\* LiveBroker.refreshAccountBalance, get_limits answering lres
refreshAccountBalance(b, lres) ==
    IF b.exc # "" THEN b
    ELSE LET b1 == Call([b EXCEPT !.stop = TRUE], "get_limits", lres)
         IN  IF lres = "raise" THEN Raise(b1, "get_limits failed")
             ELSE [b1 EXCEPT !.stop = FALSE]

\* __placeOrder without the test of the answer's stat
PlaceOrderRaises_StatIgnored(res) == res \in {"raise", "None"}

\* LiveBroker.__placeOrder raises on these answers of place_order
PlaceOrderRaises(res) == res \in {"raise", "None", "Not_Ok"}

\* submitOrder without the test of order.isInitial()
submitOrder_NoTest(b, o, res, i, requestTime) ==
    LET b1 == Call(b, "place_order", res)
    IN  IF PlaceOrderRaises(res) THEN b1
        ELSE IF OrderResponse_getDateTime_raises(requestTime)
             THEN Raise(b1, "ValueError")
             ELSE switchState(_registerOrder(setSubmitted(b1, o, i), o),
                              o, "SUBMITTED")

\* LiveBroker.submitOrder, place_order answering res, and when it answers Ok,
\* with order number i and the request time requestTime
submitOrder(b, o, res, i, requestTime) ==
    IF b.orders[o].state # "INITIAL" THEN Raise(b, "The order was already processed")
    ELSE LET b1 == Call(b, "place_order", res)
         IN  IF PlaceOrderRaises(res) THEN b1
             ELSE IF OrderResponse_getDateTime_raises(requestTime)
                  THEN Raise(b1, "ValueError")
                  ELSE switchState(_registerOrder(setSubmitted(b1, o, i), o),
                                   o, "SUBMITTED")

\* cancelOrder without the two tests it starts with
cancelOrder_NoTest(b, o, cres, lres) ==
    LET b1 == Call(b, "cancel_order", cres)
        b2 == IF cres = "raise" THEN Raise(b1, "cancel_order failed") ELSE b1
        b3 == switchState(_unregisterOrder(b2, o), o, "CANCELED")
        b4 == refreshAccountBalance(b3, lres)
    IN  notifyOrderEvent(b4, o, "CANCELED", "User requested cancellation", 0)

\* LiveBroker.cancelOrder, cancel_order answering cres and get_limits lres
cancelOrder(b, o, cres, lres) ==
    IF b.orders[o].id \notin DOMAIN b.activeOrders
    THEN Raise(b, "The order is not active anymore")
    ELSE IF b.orders[b.activeOrders[b.orders[o].id]].state = "FILLED"
    THEN Raise(b, "Can't cancel order that has already been filled")
    ELSE LET b1 == Call(b, "cancel_order", cres)
             b2 == IF cres = "raise" THEN Raise(b1, "cancel_order failed") ELSE b1
             b3 == switchState(_unregisterOrder(b2, o), o, "CANCELED")
             b4 == refreshAccountBalance(b3, lres)
         IN  notifyOrderEvent(b4, o, "CANCELED", "User requested cancellation", 0)

\* LiveBroker.dispatch with the hand-off queue q
dispatch(b, q) ==
    LET b1 == AcceptSubmitted(b, DOMAIN b.activeOrders)
    IN  IF q = <<>> THEN b1 ELSE _onUserTrades(b1, Head(q))

\* ------------------------------------------------------------ brokerage
NoRemote ==
    [status |-> "NONE", quantity |-> 0, fillshares |-> 0, norentm |-> <<0, 0, 0>>,
     rejreason |-> None, hist |-> <<>>]

Placed == {i \in Ids : remote[i].status # "NONE"}

TerminalStatuses == {"CANCELED", "REJECTED", "COMPLETE"}

\* the remote order after a change of status at time t
RemoteUpdate(r, status, fillshares, rejreason, t) ==
    [r EXCEPT !.status = status, !.fillshares = fillshares, !.rejreason = rejreason,
              !.norentm = Stamp(t),
              !.hist = Append(@, [status |-> status, fillshares |-> fillshares,
                                  norentm |-> Stamp(t)])]

\* an order the brokerage can still cancel
Cancellable(r) ==
    \/ r.status \in {"PENDING", "OPEN"}
    \/ r.status = "COMPLETE" /\ r.fillshares < r.quantity

\* one entry of get_order_book
Summary(i) ==
    [norenordno |-> i, status |-> remote[i].status, rejreason |-> remote[i].rejreason,
     fillshares |-> remote[i].fillshares, norentm |-> remote[i].norentm]

\* get_order_book: the placed orders, by order number
RECURSIVE OrderBook(_)
OrderBook(n) ==
    IF n = 0 THEN <<>>
    ELSE IF n \in Placed THEN Append(OrderBook(n - 1), Summary(n))
    ELSE OrderBook(n - 1)

RemoteOpen(i) ==
    /\ remote[i].status = "PENDING"
    /\ clock < MaxClock
    /\ clock' = clock + 1
    /\ remote' = [remote EXCEPT ![i] = RemoteUpdate(@, "OPEN", 0, None, clock')]
    /\ UNCHANGED <<engineVars, monitorVars, today>>

RemoteReject(i) ==
    /\ remote[i].status = "PENDING"
    /\ clock < MaxClock
    /\ clock' = clock + 1
    /\ remote' = [remote EXCEPT ![i] =
                     RemoteUpdate(@, "REJECTED", 0, "insufficient margin", clock')]
    /\ UNCHANGED <<engineVars, monitorVars, today>>

\* a fill of n shares: the order is reported COMPLETE with its cumulative quantity
RemoteFill(i, n) ==
    /\ remote[i].status \in {"PENDING", "OPEN", "COMPLETE"}
    /\ remote[i].fillshares + n <= remote[i].quantity
    /\ clock < MaxClock
    /\ clock' = clock + 1
    /\ remote' = [remote EXCEPT ![i] =
                     RemoteUpdate(@, "COMPLETE", remote[i].fillshares + n, None, clock')]
    /\ UNCHANGED <<engineVars, monitorVars, today>>

\* the exchange cancels what is left of an order
RemoteCancel(i) ==
    /\ remote[i].status \in {"OPEN", "COMPLETE"}
    /\ Cancellable(remote[i])
    /\ clock < MaxClock
    /\ clock' = clock + 1
    /\ remote' = [remote EXCEPT ![i] =
                     RemoteUpdate(@, "CANCELED", remote[i].fillshares, None, clock')]
    /\ UNCHANGED <<engineVars, monitorVars, today>>

\* ---------------------------------------------------------- TradeMonitor
\* the statuses of the entries single_order_history gives for order i
RECURSIVE TerminalEntries(_)
TerminalEntries(hist) ==
    IF hist = <<>> THEN 0
    ELSE TerminalEntries(Tail(hist))
         + (IF Head(hist).status \in TerminalStatuses THEN 1 ELSE 0)

RECURSIVE Repeat(_, _)
Repeat(e, n) == IF n = 0 THEN <<>> ELSE <<e>> \o Repeat(e, n - 1)

\* the order numbers getActiveOrders() answers for
ActiveIds(b) == {b.orders[b.activeOrders[i]].id : i \in DOMAIN b.activeOrders}

\* the orders of the book whose history _getNewTrades asks for
Candidates(bk, b) == {bk[k].norenordno : k \in 1..Len(bk)} \cap ActiveIds(b)

\* TradeMonitor._getNewTrades, the loop: one TradeEvent(order) per terminal
\* entry of the order's history; h[i] is the answer of single_order_history(i)
RECURSIVE CollectTrades(_, _, _)
CollectTrades(bk, b, h) ==
    IF bk = <<>> THEN <<>>
    ELSE LET e == Head(bk)
             rest == CollectTrades(Tail(bk), b, h)
         IN  IF e.norenordno \in ActiveIds(b) /\ h[e.norenordno] = "Ok"
             THEN Repeat(e, TerminalEntries(remote[e.norenordno].hist)) \o rest
             ELSE rest

\* TradeMonitor._getNewTrades on the fetched book: the exception it ends in and
\* the trades it returns
_getNewTrades(bk, b, h) ==
    IF \E i \in DOMAIN h : h[i] = "raise"
    THEN [exc |-> "single_order_history failed", trades |-> <<>>]
    ELSE [exc |-> "", trades |-> SortedByTime(CollectTrades(bk, b, h))]

HistoryAnswers == {"Ok", "None", "Not_Ok", "raise"}

\* ------------------------------------------------------------------ Init
\* the state after LiveBroker.__init__, the strategy holding n new orders
InitWith(n) ==
    /\ today \in Days
    /\ orders = [o \in 1..n |->
                    [state |-> "INITIAL", id |-> NoId, quantity |-> MaxQty, filled |-> 0]]
    /\ activeOrders = <<>>
    /\ notes = [o \in 1..n |-> <<>>]
    /\ brokerStop = FALSE
    /\ lastOp = [exc |-> "", calls |-> {}, applied |-> <<>>]
    /\ remote = [i \in 1..n |-> NoRemote]
    /\ clock = 0
    /\ monPc = "new"
    /\ monStop = FALSE
    /\ lastTradeTime = <<today[2], today[1], 0>>
    /\ queue = <<>>
    /\ book = <<>>
    /\ polls = 0
    /\ monFailed = FALSE

Init == InitWith(1)

InitPair == InitWith(NumOrders)

\* the engine's variables after a call that ended in b
Engine(b) ==
    /\ orders' = b.orders
    /\ activeOrders' = b.activeOrders
    /\ notes' = b.notes
    /\ brokerStop' = b.stop
    /\ lastOp' = [exc |-> b.exc, calls |-> b.calls, applied |-> b.applied]

\* --------------------------------------------------------- engine thread
SubmitOrder(o) ==
    \E res \in {"Ok", "Not_Ok", "None", "raise"} :
        LET i == 1 + Cardinality(Placed)
            b == submitOrder(Broker, o, res, i, Stamp(clock))
        IN  /\ <<"place_order", "Ok">> \in b.calls => i \in Ids
            /\ Engine(b)
            /\ IF <<"place_order", "Ok">> \in b.calls
               THEN /\ clock' = clock
                    /\ remote' = [remote EXCEPT ![i] =
                          RemoteUpdate([NoRemote EXCEPT !.quantity = orders[o].quantity],
                                       "PENDING", 0, None, clock)]
               ELSE UNCHANGED remoteVars
            /\ UNCHANGED <<monitorVars, today>>

CancelOrder(o) ==
    \E cres \in {"Ok", "Not_Ok", "raise"}, lres \in {"Ok", "raise"} :
        LET b == cancelOrder(Broker, o, cres, lres)
            i == orders[o].id
        IN  /\ <<"cancel_order", "Ok">> \in b.calls
                  => (i \in Ids /\ Cancellable(remote[i]) /\ clock < MaxClock)
            /\ Engine(b)
            /\ IF <<"cancel_order", "Ok">> \in b.calls
               THEN /\ clock' = clock + 1
                    /\ remote' = [remote EXCEPT ![i] =
                          RemoteUpdate(@, "CANCELED", remote[i].fillshares, None, clock')]
               ELSE UNCHANGED remoteVars
            /\ UNCHANGED <<monitorVars, today>>

\* Dispatch emptying the queue while it applies the batch at its head
Dispatch_TakesAll ==
    LET b == dispatch(Broker, queue)
    IN  /\ Engine(b)
        /\ queue' = <<>>
        /\ UNCHANGED <<remoteVars, today, monPc, monStop, lastTradeTime, book, polls, monFailed>>

Dispatch ==
    LET b == dispatch(Broker, queue)
    IN  /\ Engine(b)
        /\ queue' = IF queue = <<>> THEN queue ELSE Tail(queue)
        /\ UNCHANGED <<remoteVars, today, monPc, monStop, lastTradeTime, book, polls, monFailed>>

RefreshAccountBalance ==
    \E lres \in {"Ok", "raise"} :
        /\ Engine(refreshAccountBalance(Broker, lres))
        /\ UNCHANGED <<remoteVars, monitorVars, today>>

\* Start with a catch-up poll that puts what it found on the queue
Start_Publishes ==
    /\ monPc = "new"
    /\ \E lres \in {"Ok", "raise"}, bres \in {"Ok", "None", "raise"} :
       \E h \in [Candidates(OrderBook(Cardinality(Ids)), Broker) -> HistoryAnswers] :
          LET b1 == refreshAccountBalance(Broker, lres)
              b2 == IF b1.exc # "" THEN b1 ELSE [b1 EXCEPT !.stop = TRUE]
              got == IF bres = "Ok" THEN _getNewTrades(OrderBook(Cardinality(Ids)), Broker, h)
                     ELSE IF bres = "None" THEN [exc |-> "", trades |-> <<>>]
                     ELSE [exc |-> "get_order_book failed", trades |-> <<>>]
              b3 == IF b2.exc # "" THEN b2
                    ELSE IF got.exc # "" THEN Raise(b2, got.exc)
                    ELSE [b2 EXCEPT !.stop = FALSE]
          IN  /\ Engine(b3)
              /\ IF b3.exc = ""
                 THEN /\ monPc' = "idle"
                      /\ lastTradeTime' =
                            IF Len(got.trades) > 0
                            THEN TradeEvent_getDateTime(got.trades[Len(got.trades)])
                            ELSE lastTradeTime
                      /\ queue' = IF Len(got.trades) > 0
                                  THEN Append(queue, got.trades) ELSE queue
                 ELSE UNCHANGED <<monPc, lastTradeTime, queue>>
              /\ UNCHANGED <<remoteVars, today, monStop, book, polls, monFailed>>

\* LiveBroker.start: refreshAccountBalance, refreshOpenOrders (which returns at
\* once), _startTradeMonitor with the catch-up poll of TradeMonitor.start
Start ==
    /\ monPc = "new"
    /\ \E lres \in {"Ok", "raise"}, bres \in {"Ok", "None", "raise"} :
       \E h \in [Candidates(OrderBook(Cardinality(Ids)), Broker) -> HistoryAnswers] :
          LET b1 == refreshAccountBalance(Broker, lres)
              b2 == IF b1.exc # "" THEN b1 ELSE [b1 EXCEPT !.stop = TRUE]
              got == IF bres = "Ok" THEN _getNewTrades(OrderBook(Cardinality(Ids)), Broker, h)
                     ELSE IF bres = "None" THEN [exc |-> "", trades |-> <<>>]
                     ELSE [exc |-> "get_order_book failed", trades |-> <<>>]
              b3 == IF b2.exc # "" THEN b2
                    ELSE IF got.exc # "" THEN Raise(b2, got.exc)
                    ELSE [b2 EXCEPT !.stop = FALSE]
          IN  /\ Engine(b3)
              /\ IF b3.exc = ""
                 THEN /\ monPc' = "idle"
                      /\ lastTradeTime' =
                            IF Len(got.trades) > 0
                            THEN TradeEvent_getDateTime(got.trades[Len(got.trades)])
                            ELSE lastTradeTime
                 ELSE UNCHANGED <<monPc, lastTradeTime>>
              /\ UNCHANGED <<remoteVars, today, monStop, queue, book, polls, monFailed>>

\* LiveBroker.stop
Stop ==
    /\ Engine([Broker EXCEPT !.stop = TRUE])
    /\ monStop' = TRUE
    /\ UNCHANGED <<remoteVars, today, monPc, lastTradeTime, queue, book, polls, monFailed>>

\* --------------------------------------------------------- poller thread
\* PollBegin with "while True" for the loop test: the flag is never looked at
PollBegin_NoStopTest ==
    /\ monPc = "idle"
    /\ polls < MaxPolls
    /\ polls' = polls + 1
    /\ \E bres \in {"Ok", "None", "raise"} :
          IF bres = "Ok"
          THEN /\ monPc' = "fetched"
               /\ book' = OrderBook(Cardinality(Ids))
               /\ UNCHANGED monFailed
          ELSE /\ monFailed' = (bres = "raise")
               /\ UNCHANGED <<monPc, book>>
    /\ UNCHANGED <<engineVars, remoteVars, today, monStop, lastTradeTime, queue>>

\* TradeMonitor.run: the loop test and, in the cycle, get_order_book
PollBegin ==
    /\ monPc = "idle"
    /\ ~monStop
    /\ polls < MaxPolls
    /\ polls' = polls + 1
    /\ \E bres \in {"Ok", "None", "raise"} :
          IF bres = "Ok"
          THEN /\ monPc' = "fetched"
               /\ book' = OrderBook(Cardinality(Ids))
               /\ UNCHANGED monFailed
          ELSE /\ monFailed' = (bres = "raise")
               /\ UNCHANGED <<monPc, book>>
    /\ UNCHANGED <<engineVars, remoteVars, today, monStop, lastTradeTime, queue>>

\* PollEnd without the test of len(trades): every cycle that ends normally
\* puts its batch on the queue
PollEnd_NoLenTest ==
    /\ monPc = "fetched"
    /\ \E h \in [Candidates(book, Broker) -> HistoryAnswers] :
          LET got == _getNewTrades(book, Broker, h)
          IN  /\ IF got.exc = ""
                 THEN /\ lastTradeTime' =
                            IF Len(got.trades) > 0
                            THEN TradeEvent_getDateTime(got.trades[Len(got.trades)])
                            ELSE lastTradeTime
                      /\ queue' = Append(queue, got.trades)
                 ELSE UNCHANGED <<lastTradeTime, queue>>
              /\ monFailed' = (got.exc # "")
    /\ monPc' = "idle"
    /\ book' = <<>>
    /\ UNCHANGED <<engineVars, remoteVars, today, monStop, polls>>

\* PollEnd applying the trades to the orders itself, besides queueing them
PollEnd_Applies ==
    /\ monPc = "fetched"
    /\ \E h \in [Candidates(book, Broker) -> HistoryAnswers] :
          LET got == _getNewTrades(book, Broker, h)
          IN  /\ IF got.exc = "" /\ Len(got.trades) > 0
                 THEN /\ lastTradeTime' = TradeEvent_getDateTime(got.trades[Len(got.trades)])
                      /\ queue' = Append(queue, got.trades)
                 ELSE UNCHANGED <<lastTradeTime, queue>>
              /\ monFailed' = (got.exc # "")
              /\ Engine(_onUserTrades(Broker, got.trades))
    /\ monPc' = "idle"
    /\ book' = <<>>
    /\ UNCHANGED <<remoteVars, today, monStop, polls>>

\* PollEnd putting every trade on the queue as a batch of its own
PollEnd_PutEach ==
    /\ monPc = "fetched"
    /\ \E h \in [Candidates(book, Broker) -> HistoryAnswers] :
          LET got == _getNewTrades(book, Broker, h)
          IN  /\ IF got.exc = "" /\ Len(got.trades) > 0
                 THEN /\ lastTradeTime' = TradeEvent_getDateTime(got.trades[Len(got.trades)])
                      /\ queue' = queue \o [k \in 1..Len(got.trades) |-> <<got.trades[k]>>]
                 ELSE UNCHANGED <<lastTradeTime, queue>>
              /\ monFailed' = (got.exc # "")
    /\ monPc' = "idle"
    /\ book' = <<>>
    /\ UNCHANGED <<engineVars, remoteVars, today, monStop, polls>>

\* PollEnd without the try/except of run: an exception ends the thread
PollEnd_NoCatch ==
    /\ monPc = "fetched"
    /\ \E h \in [Candidates(book, Broker) -> HistoryAnswers] :
          LET got == _getNewTrades(book, Broker, h)
          IN  /\ IF got.exc = "" /\ Len(got.trades) > 0
                 THEN /\ lastTradeTime' = TradeEvent_getDateTime(got.trades[Len(got.trades)])
                      /\ queue' = Append(queue, got.trades)
                 ELSE UNCHANGED <<lastTradeTime, queue>>
              /\ monFailed' = (got.exc # "")
              /\ monPc' = IF got.exc # "" THEN "done" ELSE "idle"
    /\ book' = <<>>
    /\ UNCHANGED <<engineVars, remoteVars, today, monStop, polls>>

\* TradeMonitor.run: the rest of the cycle, from the loop over the book to the put
PollEnd ==
    /\ monPc = "fetched"
    /\ \E h \in [Candidates(book, Broker) -> HistoryAnswers] :
          LET got == _getNewTrades(book, Broker, h)
          IN  /\ IF got.exc = "" /\ Len(got.trades) > 0
                 THEN /\ lastTradeTime' = TradeEvent_getDateTime(got.trades[Len(got.trades)])
                      /\ queue' = Append(queue, got.trades)
                 ELSE UNCHANGED <<lastTradeTime, queue>>
              /\ monFailed' = (got.exc # "")
    /\ monPc' = "idle"
    /\ book' = <<>>
    /\ UNCHANGED <<engineVars, remoteVars, today, monStop, polls>>

\* TradeMonitor.run: the loop test finds the stop flag set
PollExit ==
    /\ monPc = "idle"
    /\ monStop
    /\ monPc' = "done"
    /\ UNCHANGED <<engineVars, remoteVars, today, monStop, lastTradeTime, queue, book, polls, monFailed>>

\* ------------------------------------------------------------------ Spec
Next ==
    \/ \E o \in Orders : SubmitOrder(o)
    \/ \E o \in Orders : CancelOrder(o)
    \/ Dispatch
    \/ RefreshAccountBalance
    \/ Start
    \/ Stop
    \/ PollBegin
    \/ PollEnd
    \/ PollExit
    \/ \E i \in Ids : RemoteOpen(i)
    \/ \E i \in Ids : RemoteReject(i)
    \/ \E i \in Ids, n \in 1..MaxQty : RemoteFill(i, n)
    \/ \E i \in Ids : RemoteCancel(i)

\* a strategy with one order, every operation and every answer of the gateway
Spec == Init /\ [][Next]_vars

\* a strategy with NumOrders orders that cancels none and never shuts down
NextPair ==
    \/ \E o \in Orders : SubmitOrder(o)
    \/ Dispatch
    \/ Start
    \/ PollBegin
    \/ PollEnd
    \/ \E i \in Ids : RemoteReject(i)
    \/ \E i \in Ids, n \in 1..MaxQty : RemoteFill(i, n)
    \/ \E i \in Ids : RemoteCancel(i)

SpecPair == InitPair /\ [][NextPair]_vars

\* a strategy with NumOrders orders that cancels orders, with a brokerage that
\* rejects orders and fills none
NextPairCancel ==
    \/ \E o \in Orders : SubmitOrder(o)
    \/ \E o \in Orders : CancelOrder(o)
    \/ Dispatch
    \/ Start
    \/ PollBegin
    \/ PollEnd
    \/ \E i \in Ids : RemoteReject(i)

SpecPairCancel == InitPair /\ [][NextPairCancel]_vars

\* the poller thread is scheduled again and again: a cycle that has fetched the
\* book goes on to its end, and the loop test that finds the flag set is taken
PollerFairness == WF_vars(PollEnd) /\ WF_vars(PollExit)

SpecFairPoller == Init /\ [][Next]_vars /\ PollerFairness

\* the brokerage is done with a registered order and the engine has not heard
TerminalWaiting ==
    \E i \in DOMAIN activeOrders :
        \/ remote[i].status \in {"REJECTED", "CANCELED"}
        \/ remote[i].status = "COMPLETE" /\ remote[i].fillshares = remote[i].quantity

\* a cycle that can publish the same trade of a registered order once more
Republishing == activeOrders # <<>> /\ ~TerminalWaiting

\* TradeMonitor.run as a loop without end: the loop test and get_order_book.
\* Only the cycles that can publish a trade again and again are counted, up to
\* MaxPolls, and a cycle waits while MaxQueue batches are on the queue.
PollBeginLive ==
    /\ monPc = "idle"
    /\ ~monStop
    /\ Len(queue) < MaxQueue
    /\ Republishing => polls < MaxPolls
    /\ polls' = IF Republishing THEN polls + 1 ELSE polls
    /\ \E bres \in {"Ok", "None", "raise"} :
          IF bres = "Ok"
          THEN /\ monPc' = "fetched"
               /\ book' = OrderBook(Cardinality(Ids))
               /\ UNCHANGED monFailed
          ELSE /\ monFailed' = (bres = "raise")
               /\ UNCHANGED <<monPc, book>>
    /\ UNCHANGED <<engineVars, remoteVars, today, monStop, lastTradeTime, queue>>

\* a cycle whose get_order_book answers
PollBeginOk == PollBeginLive /\ monPc' = "fetched"

\* the rest of a cycle in which every single_order_history answers
PollEndOk ==
    /\ monPc = "fetched"
    /\ \E h \in [Candidates(book, Broker) -> {"Ok"}] :
          LET got == _getNewTrades(book, Broker, h)
          IN  /\ IF Len(got.trades) > 0
                 THEN /\ lastTradeTime' = TradeEvent_getDateTime(got.trades[Len(got.trades)])
                      /\ queue' = Append(queue, got.trades)
                 ELSE UNCHANGED <<lastTradeTime, queue>>
              /\ monFailed' = (got.exc # "")
    /\ monPc' = "idle"
    /\ book' = <<>>
    /\ UNCHANGED <<engineVars, remoteVars, today, monStop, polls>>

\* a step that takes the batch at the head of the queue.  Only a dispatch tick
\* takes a batch, and a tick is possible whenever there is one, so this is the
\* tick of LiveBroker.dispatch that finds the queue not empty.
DispatchTakes == queue # <<>> /\ queue' = Tail(queue)

\* start() with the gateway answering
StartOk == Start /\ monPc' = "idle"

\* a strategy with one order that never shuts down: the engine keeps ticking,
\* the poller keeps cycling, the gateway may fail any call but answers again
\* and again
NextLive ==
    \/ \E o \in Orders : SubmitOrder(o)
    \/ \E o \in Orders : CancelOrder(o)
    \/ Dispatch
    \/ Start
    \/ PollBeginLive
    \/ PollEnd
    \/ \E i \in Ids : RemoteOpen(i)
    \/ \E i \in Ids : RemoteReject(i)
    \/ \E i \in Ids, n \in 1..MaxQty : RemoteFill(i, n)
    \/ \E i \in Ids : RemoteCancel(i)

LiveFairness ==
    /\ WF_queue(DispatchTakes)
    /\ WF_vars(StartOk)
    /\ SF_vars(PollBeginOk)
    /\ SF_vars(PollEndOk)

SpecLive == Init /\ [][NextLive]_vars /\ LiveFairness

\* ---------------------------------------------------------------- claims
Registered(o) == orders[o].id \in DOMAIN activeOrders

Last(s) == s[Len(s)]

\* the number of notifications of type t in s
CountType(s, t) == Cardinality({k \in 1..Len(s) : s[k].type = t})

\* the PartiallyFilled and Filled notifications of s, in order
FillNotes(s) == SelectSeq(s, LAMBDA n : n.type \in {"PARTIALLY_FILLED", "FILLED"})

\* the quantities of the executions notified in s, added up
RECURSIVE SumFills(_)
SumFills(s) ==
    IF s = <<>> THEN 0
    ELSE SumFills(Tail(s))
         + (IF Head(s).type \in {"PARTIALLY_FILLED", "FILLED"} THEN Head(s).quantity ELSE 0)

UserCancel == "User requested cancellation"

\* C1: the filled quantity of an order never exceeds its requested quantity, and
\* no step makes it smaller.
C1_FilledBoundedMonotone ==
    /\ [](\A o \in Orders : orders[o].filled <= orders[o].quantity)
    /\ [][\A o \in Orders : orders'[o].filled >= orders[o].filled]_vars

\* an order filled in two executions: its filled quantity grew twice
C1_Witness ==
    \E o \in Orders :
        /\ orders[o].state = "FILLED"
        /\ orders[o].filled = orders[o].quantity
        /\ \E k \in 1..Len(notes[o]) :
              notes[o][k].type = "PARTIALLY_FILLED" /\ notes[o][k].quantity > 0

\* C2 as stated: every PartiallyFilled, Filled or Canceled notification of an
\* order comes after exactly one Accepted notification of that order.
C2_Original ==
    \A o \in Orders : \A k \in 1..Len(notes[o]) :
        notes[o][k].type \in {"PARTIALLY_FILLED", "FILLED", "CANCELED"}
            => CountType(SubSeq(notes[o], 1, k - 1), "ACCEPTED") = 1

\* C2 as amended: an order is notified Accepted at most once; an order that is
\* Accepted, PartiallyFilled or Filled was notified Accepted first of all; every
\* PartiallyFilled or Filled notification, and every Canceled notification that
\* dispatch emits for a remote trade, comes after the Accepted notification.  Only
\* the Canceled notification of cancelOrder can come without one.
C2_AcceptedOnceBeforeFills ==
    \A o \in Orders :
        /\ CountType(notes[o], "ACCEPTED") <= 1
        /\ orders[o].state \in {"INITIAL", "SUBMITTED"} => notes[o] = <<>>
        /\ orders[o].state \in {"ACCEPTED", "PARTIALLY_FILLED", "FILLED"}
              => (Len(notes[o]) >= 1 /\ notes[o][1].type = "ACCEPTED")
        /\ \A k \in 1..Len(notes[o]) :
              (\/ notes[o][k].type \in {"PARTIALLY_FILLED", "FILLED"}
               \/ notes[o][k].type = "CANCELED" /\ notes[o][k].info # UserCancel)
                  => CountType(SubSeq(notes[o], 1, k - 1), "ACCEPTED") = 1

\* an order accepted by a dispatch tick and filled by a later one
C2_Witness ==
    \E o \in Orders :
        /\ Len(notes[o]) >= 2
        /\ notes[o][1].type = "ACCEPTED"
        /\ Last(notes[o]).type = "FILLED"

\* the COMPLETE entries of a remote order's history
CompleteEntries(i) == SelectSeq(remote[i].hist, LAMBDA e : e.status = "COMPLETE")

\* the remote history reports a cumulative quantity below the requested one and,
\* at a later time, the requested quantity
PartialThenFull(i) ==
    /\ Len(CompleteEntries(i)) = 2
    /\ CompleteEntries(i)[1].fillshares < remote[i].quantity
    /\ CompleteEntries(i)[2].fillshares = remote[i].quantity
    /\ DtLess(TradeEvent_getDateTime(CompleteEntries(i)[1]),
              TradeEvent_getDateTime(CompleteEntries(i)[2]))

\* C3 as stated: an order whose remote history reports c < Q and later Q gets
\* one PartiallyFilled notification of c and then one Filled notification of
\* Q - c, and stays registered until the second.
C3_Original ==
    \A o \in Orders :
        (orders[o].id # NoId /\ PartialThenFull(orders[o].id)) =>
            LET c == CompleteEntries(orders[o].id)[1].fillshares
            IN  /\ CountType(notes[o], "PARTIALLY_FILLED") <= 1
                /\ orders[o].state = "PARTIALLY_FILLED" => Registered(o)
                /\ orders[o].state = "FILLED" =>
                      FillNotes(notes[o]) =
                          <<[type |-> "PARTIALLY_FILLED", info |-> "OrderExecutionInfo",
                             quantity |-> c],
                            [type |-> "FILLED", info |-> "OrderExecutionInfo",
                             quantity |-> orders[o].quantity - c]>>

\* C4 as stated: a terminal trade that one poll cycle put on the queue is not
\* put on it again by a later cycle while the first batch is still waiting.
C4_Original ==
    \A j, k \in 1..Len(queue) :
        j < k => \A x \in 1..Len(queue[j]), y \in 1..Len(queue[k]) :
                    queue[j][x].status \in TerminalStatuses => queue[j][x] # queue[k][y]

\* C5: applying a batch a second time changes neither an order nor the registry
\* and raises nothing, for every batch waiting in the queue; and the executions
\* notified for an order add up to its filled quantity, so that no remote fill
\* is counted twice.
C5_SameBatchTwice ==
    /\ \A k \in 1..Len(queue) :
          LET b0 == AcceptSubmitted(Broker, DOMAIN activeOrders)
              b1 == _onUserTrades(b0, queue[k])
              b2 == _onUserTrades(b1, queue[k])
          IN  /\ b1.exc = ""
              /\ b2.exc = ""
              /\ b2.orders = b1.orders
              /\ b2.activeOrders = b1.activeOrders
    /\ \A o \in Orders : SumFills(notes[o]) = orders[o].filled

\* two dispatch ticks applied the same partial fill to an order: the second
\* execution has quantity 0
C5_Witness ==
    \E o \in Orders : \E k \in 1..Len(notes[o]) :
        /\ k < Len(notes[o])
        /\ notes[o][k].type = "PARTIALLY_FILLED" /\ notes[o][k].quantity > 0
        /\ notes[o][k + 1].type = "PARTIALLY_FILLED" /\ notes[o][k + 1].quantity = 0
        /\ orders[o].filled = notes[o][k].quantity

\* the trades of s are in non-decreasing order of time
SortedBatch(s) ==
    \A j, k \in 1..Len(s) :
        j < k => DtLeq(TradeEvent_getDateTime(s[j]), TradeEvent_getDateTime(s[k]))

\* C6: every batch in the queue is sorted by time, and the trades a dispatch
\* tick goes through are in non-decreasing order of time.
C6_BatchesSorted ==
    /\ \A k \in 1..Len(queue) : SortedBatch(queue[k])
    /\ SortedBatch(lastOp.applied)

\* a dispatch tick went through the trades of two orders, the later order's
\* trade first because it is the older one
C6_Witness ==
    \E j, k \in 1..Len(lastOp.applied) :
        /\ j < k
        /\ lastOp.applied[j].norenordno > lastOp.applied[k].norenordno
        /\ DtLess(TradeEvent_getDateTime(lastOp.applied[j]),
                  TradeEvent_getDateTime(lastOp.applied[k]))

\* C7: the registry holds an order under its own order number and under no
\* other; registering an order and unregistering it again gives the registry
\* back, and so does unregistering a registered order and registering it again;
\* registering an order without a number or under a number already registered,
\* and unregistering an order that is not registered, fail their assertion and
\* leave the registry as it was.
C7_RegistryInverse ==
    /\ \A i \in DOMAIN activeOrders : orders[activeOrders[i]].id = i
    /\ \A i, j \in DOMAIN activeOrders : activeOrders[i] = activeOrders[j] => i = j
    /\ \A o \in Orders :
          LET r == _registerOrder(Broker, o)
              u == _unregisterOrder(Broker, o)
          IN  /\ (orders[o].id = NoId \/ Registered(o))
                    => (r.exc = "AssertionError" /\ r.activeOrders = activeOrders)
              /\ ~Registered(o)
                    => (u.exc = "AssertionError" /\ u.activeOrders = activeOrders)
              /\ (orders[o].id # NoId /\ ~Registered(o))
                    => /\ r.exc = ""
                       /\ r.activeOrders[orders[o].id] = o
                       /\ _unregisterOrder(r, o).exc = ""
                       /\ _unregisterOrder(r, o).activeOrders = activeOrders
              /\ Registered(o)
                    => /\ u.exc = ""
                       /\ orders[o].id \notin DOMAIN u.activeOrders
                       /\ _registerOrder(u, o).exc = ""
                       /\ _registerOrder(u, o).activeOrders = activeOrders

\* one order is registered, another was registered and has been unregistered
C7_Witness ==
    \E o, p \in Orders :
        /\ Registered(o)
        /\ activeOrders[orders[o].id] = o
        /\ orders[p].id # NoId /\ ~Registered(p)
        /\ orders[p].state \in {"FILLED", "CANCELED"}

\* C8 as stated: a REJECTED trade applied to a registered order unregisters it,
\* makes it Canceled and notifies Canceled with the brokerage's rejection reason.
C8_Original ==
    \A k \in 1..Len(lastOp.applied) : \A o \in Orders :
        LET trade == lastOp.applied[k]
        IN  (/\ trade.status = "REJECTED"
             /\ trade.norenordno = orders[o].id
             /\ notes[o] # <<>>
             /\ Last(notes[o]).type = "CANCELED"
             /\ Last(notes[o]).info # UserCancel)
                => /\ ~Registered(o)
                   /\ orders[o].state = "CANCELED"
                   /\ Last(notes[o]).info = trade.rejreason

\* C9: cancelOrder on an order that is not registered, or that is filled, raises
\* a usage error without calling the gateway and changes no order, no
\* notification, nothing in the registry and nothing at the brokerage.
C9_CancelClosedOrder ==
    [][\A o \in Orders :
          (CancelOrder(o) /\ (~Registered(o) \/ orders[o].state = "FILLED"))
              => /\ lastOp'.exc \in {"The order is not active anymore",
                                     "Can't cancel order that has already been filled"}
                 /\ lastOp'.calls = {}
                 /\ UNCHANGED <<orders, activeOrders, notes, remote>>]_vars

\* cancelOrder has just been refused for an order that is filled
C9_Witness ==
    /\ lastOp.exc = "The order is not active anymore"
    /\ \E o \in Orders : orders[o].state = "FILLED" /\ ~Registered(o)

\* C10 as stated: when the gateway's cancel call raises or answers with a
\* failure status, cancelOrder reports a failure, the order stays registered in
\* its state and no Canceled notification is emitted.
C10_Original ==
    [][\A o \in Orders :
          (/\ CancelOrder(o)
           /\ \/ <<"cancel_order", "Not_Ok">> \in lastOp'.calls
              \/ <<"cancel_order", "raise">> \in lastOp'.calls)
              => /\ lastOp'.exc # ""
                 /\ UNCHANGED <<orders, activeOrders, notes>>]_vars

\* the answers of place_order on which the placement has failed
PlaceFailures == {<<"place_order", "raise">>, <<"place_order", "None">>,
                  <<"place_order", "Not_Ok">>}

\* C11: when place_order raises, returns nothing or answers with a stat other
\* than Ok, submitOrder returns leaving the order Initial without an order
\* number, the registry as it was and no notification emitted.
C11_PlacementFailure ==
    [][\A o \in Orders :
          (SubmitOrder(o) /\ lastOp'.calls \cap PlaceFailures # {})
              => /\ orders'[o].state = "INITIAL"
                 /\ orders'[o].id = NoId
                 /\ orders'[o].id \notin DOMAIN activeOrders'
                 /\ UNCHANGED <<orders, activeOrders, notes, remote>>]_vars

\* submitOrder has just returned from a placement the gateway refused
C11_Witness ==
    /\ <<"place_order", "Not_Ok">> \in lastOp.calls
    /\ lastOp.exc = ""
    /\ \E o \in Orders : orders[o].state = "INITIAL" /\ orders[o].id = NoId
    /\ activeOrders = <<>>

\* C12: submitOrder on an order that is not Initial raises a usage error,
\* calls no gateway function and leaves every order, the registry, the
\* notifications and the brokerage as they were.
C12_Resubmission ==
    [][\A o \in Orders :
          (SubmitOrder(o) /\ orders[o].state # "INITIAL")
              => /\ lastOp'.exc = "The order was already processed"
                 /\ lastOp'.calls = {}
                 /\ UNCHANGED <<orders, activeOrders, notes, remote>>]_vars

\* submitOrder has just been refused for an order that is registered
C12_Witness ==
    /\ lastOp.exc = "The order was already processed"
    /\ \E o \in Orders : Registered(o) /\ orders[o].state \in {"SUBMITTED", "ACCEPTED"}

\* C13: a poll cycle whose get_order_book raises or returns None, and a cycle
\* that fetched an empty book, put nothing on the queue and leave
\* __lastTradeTime as it was.
C13_EmptyBook ==
    [][((PollBegin /\ monPc' = "idle") \/ (PollEnd /\ book = <<>>))
          => UNCHANGED <<queue, lastTradeTime>>]_vars

\* a poll cycle has run to its end while the brokerage held no order at all
C13_Witness ==
    /\ polls > 0
    /\ monPc = "idle"
    /\ Placed = {}
    /\ queue = <<>>

\* C14 as stated: no step makes __lastTradeTime earlier, and it changes only
\* in the catch-up poll of start or in a cycle of run that found a trade and
\* put its batch on the queue.
C14_Original ==
    [][/\ DtLeq(lastTradeTime, lastTradeTime')
       /\ lastTradeTime' # lastTradeTime
             => \/ monPc = "new"
                \/ monPc = "fetched" /\ Len(queue') = Len(queue) + 1]_vars

\* the brokerage is done with order number i: rejected, canceled, or complete
\* with the whole quantity
RemoteTerminal(i) ==
    \/ remote[i].status \in {"REJECTED", "CANCELED"}
    \/ remote[i].status = "COMPLETE" /\ remote[i].fillshares = remote[i].quantity

\* a Filled or Canceled notification was emitted for order o
TerminalNote(o) == \E k \in 1..Len(notes[o]) : notes[o][k].type \in {"FILLED", "CANCELED"}

\* C15 as stated: a registered order with which the brokerage is done is
\* eventually unregistered with a Filled or Canceled notification emitted for it.
C15_Original ==
    \A o \in {1} :
        (Registered(o) /\ RemoteTerminal(orders[o].id))
            ~> (~Registered(o) /\ TerminalNote(o))

\* C16: a failure inside a poll cycle of TradeMonitor.run does not end the
\* loop.  The thread has ended only if the stop flag is set; after a cycle that
\* failed, and while the flag is not set, the thread is at the head of the loop
\* or in a further cycle, and at the head of the loop a further cycle can begin.
C16_FailureKeepsPolling ==
    /\ monPc = "done" => monStop
    /\ monFailed /\ ~monStop => monPc \in {"idle", "fetched"}
    /\ monPc = "idle" /\ ~monStop /\ polls < MaxPolls => ENABLED PollBegin

\* a cycle failed, the stop flag is not set, and a further cycle is running
C16_Witness == monFailed /\ ~monStop /\ monPc = "fetched"

\* C17: after stop() has set the stop signal no further cycle begins, and the
\* poller thread, once started, ends, so that join() returns.
C17_StopEndsPoller ==
    /\ [][monStop => polls' = polls]_vars
    /\ (monStop /\ monPc # "new") ~> (monPc = "done")

\* the poller ran a cycle, stop() was called and the thread has ended
C17_Witness == monStop /\ monPc = "done" /\ polls > 0

\* what only the poller writes: its position, its cycle count, the high-water
\* mark, the outcome of its last cycle, a batch more on the queue
PollerWrote ==
    \/ monPc' # monPc
    \/ polls' # polls
    \/ lastTradeTime' # lastTradeTime
    \/ monFailed' # monFailed
    \/ Len(queue') > Len(queue)

\* C18: a step of the poller (the catch-up poll in start and every cycle of
\* run) leaves the registry, every order and the notifications unchanged, and a
\* cycle of run leaves every variable of the engine and the brokerage unchanged.
C18_PollerFrame ==
    [][PollerWrote =>
          /\ orders' = orders /\ activeOrders' = activeOrders /\ notes' = notes
          /\ monPc # "new" => UNCHANGED <<engineVars, remoteVars>>]_vars

\* a cycle has put a trade of a registered order on the queue, and the order
\* is still registered and active, untouched by the poller
C18_Witness ==
    /\ queue # <<>>
    /\ monPc = "idle"
    /\ \E o \in Orders :
          /\ Registered(o)
          /\ orders[o].state \in {"SUBMITTED", "ACCEPTED"}
          /\ queue[1][1].norenordno = orders[o].id

\* C19 as stated, for the bound MaxPolls - 1: however many cycles the poller
\* runs, fewer batches than that are waiting in the hand-off queue.
C19_Original == Len(queue) < MaxPolls

\* C19: the hand-off queue has no bound of its own.  A step adds at most one
\* batch and removes at most one, and the batches waiting never exceed the
\* cycles of run begun so far.
C19_QueueGrowsWithCycles ==
    /\ [](Len(queue) <= polls)
    /\ [][Len(queue') <= Len(queue) + 1 /\ Len(queue') >= Len(queue) - 1]_vars

\* every cycle begun has left a batch that no dispatch tick has taken yet
C19_Witness == polls = MaxPolls /\ Len(queue) = polls

\* C20: the catch-up poll of TradeMonitor.start puts nothing on the hand-off
\* queue.  The queue is empty until the thread runs, start leaves the queue as
\* it is, and only the end of a cycle of run adds a batch.
C20_StartPublishesNothing ==
    /\ [](monPc = "new" => queue = <<>>)
    /\ [][monPc = "new" /\ monPc' # "new" => queue' = queue]_vars
    /\ [][Len(queue') > Len(queue) => monPc = "fetched" /\ monPc' = "idle"]_vars

\* start has run with a terminal trade of a registered order in the book: the
\* catch-up poll moved the high-water mark, no cycle of run has begun, and the
\* queue is empty
C20_Witness ==
    /\ monPc = "idle"
    /\ polls = 0
    /\ lastTradeTime # <<today[2], today[1], 0>>
    /\ queue = <<>>

\* C21 as stated: every trade event on the hand-off queue carries the status
\* COMPLETE, CANCELED or REJECTED.
C21_Original ==
    \A k \in 1..Len(queue) : \A j \in 1..Len(queue[k]) :
        queue[k][j].status \in TerminalStatuses

\* C22: a dispatch tick takes at most one batch, the one at the head of the
\* hand-off queue.  A tick that finds the queue empty leaves it empty, leaves
\* the registry, every filled quantity and order number unchanged, and changes
\* an order or emits a notification only to accept a Submitted order.
C22_DispatchOneBatch ==
    [][/\ Len(queue') >= Len(queue) - 1
       /\ Len(queue') < Len(queue) => queue' = Tail(queue)
       /\ (Dispatch /\ queue = <<>>) =>
             /\ queue' = <<>>
             /\ activeOrders' = activeOrders
             /\ lastOp'.applied = <<>>
             /\ \A o \in Orders :
                   \/ orders'[o] = orders[o] /\ notes'[o] = notes[o]
                   \/ /\ orders[o].state = "SUBMITTED"
                      /\ orders'[o] = [orders[o] EXCEPT !.state = "ACCEPTED"]
                      /\ notes'[o] = Append(notes[o],
                             [type |-> "ACCEPTED", info |-> None, quantity |-> 0])]_vars

\* no batch was ever published, and a tick on the empty queue accepted the
\* order and did nothing else
C22_Witness ==
    /\ polls = 0
    /\ queue = <<>>
    /\ \E o \in Orders :
          /\ orders[o].state = "ACCEPTED"
          /\ Registered(o)
          /\ Len(notes[o]) = 1

\* the events of a batch whose order is registered when the tick begins
KnownTrades(batch) == SelectSeq(batch, LAMBDA e : e.norenordno \in DOMAIN activeOrders)

\* the order numbers the events of a batch name
TradeIds(batch) == {batch[k].norenordno : k \in 1..Len(batch)}

\* C23: an event of a batch that names no registered order is dropped.  The
\* tick ends as it would without that event: the events that follow it are
\* gone through, and an order no event of a registered order names keeps its
\* filled quantity, its place in or out of the registry, and gets no
\* notification but that of its acceptance.
C23_UnknownIdDropped ==
    [][(Dispatch /\ queue # <<>>) =>
          LET known == KnownTrades(Head(queue))
              b == dispatch(Broker, <<known>>)
          IN  /\ orders' = b.orders /\ activeOrders' = b.activeOrders /\ notes' = b.notes
              /\ lastOp'.exc = b.exc
              /\ lastOp'.exc = "" => lastOp'.applied = Head(queue)
              /\ \A o \in Orders :
                    orders[o].id \notin TradeIds(known) =>
                       /\ orders'[o].filled = orders[o].filled
                       /\ orders'[o].state \in {orders[o].state, "ACCEPTED"}
                       /\ Registered(o)' = Registered(o)
                       /\ \A k \in 1..Len(notes'[o]) :
                             k > Len(notes[o]) => notes'[o][k].type = "ACCEPTED"]_vars

\* a tick went through a batch of two events: the first named an order the user
\* had cancelled meanwhile and was dropped, the second was applied to its order
C23_Witness ==
    /\ Len(lastOp.applied) = 2
    /\ lastOp.exc = ""
    /\ \E o1, o2 \in Orders :
          /\ o1 # o2
          /\ lastOp.applied[1].norenordno = orders[o1].id
          /\ lastOp.applied[2].norenordno = orders[o2].id
          /\ notes[o1] # <<>> /\ Last(notes[o1]).info = UserCancel
          /\ notes[o2] # <<>> /\ Last(notes[o2]).type = "CANCELED"
          /\ Last(notes[o2]).info = None

\* C24: an event whose status is none of REJECTED, CANCELED, COMPLETE changes
\* nothing.  When every event a tick applies that names a registered order has
\* such a status, the order keeps its filled quantity and its place in the
\* registry, changes state only to be accepted, gets no notification but that
\* of its acceptance, and the tick raises nothing.
C24_UnknownStatusNoOp ==
    [][(Dispatch /\ queue # <<>>) =>
          \A o \in Orders :
             (/\ Registered(o)
              /\ \A k \in 1..Len(Head(queue)) :
                    Head(queue)[k].norenordno = orders[o].id
                       => Head(queue)[k].status \notin TerminalStatuses)
             => /\ orders'[o].filled = orders[o].filled
                /\ orders'[o].state \in {orders[o].state, "ACCEPTED"}
                /\ Registered(o)'
                /\ \A k \in 1..Len(notes'[o]) :
                      k > Len(notes[o]) => notes'[o][k].type = "ACCEPTED"
                /\ lastOp'.exc = ""]_vars

\* a tick applied an event of status PENDING or OPEN to a registered order,
\* which is still registered and active with nothing filled
C24_Witness ==
    /\ lastOp.applied # <<>>
    /\ lastOp.exc = ""
    /\ \E o \in Orders :
          /\ Registered(o)
          /\ orders[o].state = "ACCEPTED"
          /\ orders[o].filled = 0
          /\ \A k \in 1..Len(lastOp.applied) :
                /\ lastOp.applied[k].norenordno = orders[o].id
                /\ lastOp.applied[k].status \in {"PENDING", "OPEN"}

\* C25: between the operations of the engine an order is in the registry if and
\* only if it has an order number and its state is Submitted, Accepted or
\* PartiallyFilled, and the registry holds it under its own order number.
C25_RegistryIffActive ==
    \A o \in Orders :
        /\ Registered(o) <=>
              /\ orders[o].id # NoId
              /\ orders[o].state \in {"SUBMITTED", "ACCEPTED", "PARTIALLY_FILLED"}
        /\ Registered(o) => activeOrders[orders[o].id] = o

\* cancelOrder ended in the exception of the balance refresh, after it had
\* unregistered the order and switched it to Canceled
C25_Witness ==
    \E o \in Orders :
        /\ lastOp.exc = "get_limits failed"
        /\ "cancel_order" \in Called(lastOp.calls)
        /\ orders[o].state = "CANCELED"
        /\ orders[o].id # NoId
        /\ ~Registered(o)

\* C26 as stated: a call of cancelOrder that moves an order to Canceled emits
\* the Canceled notification with the user-requested reason for it, and no
\* order is Canceled without a Canceled notification.
C26_Original ==
    /\ [][\A o \in Orders :
             (CancelOrder(o) /\ orders[o].state # "CANCELED" /\ orders'[o].state = "CANCELED")
                => notes'[o] = Append(notes[o],
                       [type |-> "CANCELED", info |-> UserCancel, quantity |-> 0])]_vars
    /\ [](\A o \in Orders :
             orders[o].state = "CANCELED" => CountType(notes[o], "CANCELED") > 0)

\* C27: Filled and Canceled are absorbing and exclusive.  No step changes an
\* order that is Filled or Canceled, and an order gets at most one Filled or
\* Canceled notification in all.
C27_TerminalAbsorbing ==
    /\ [][\A o \in Orders :
             orders[o].state \in {"FILLED", "CANCELED"} => orders'[o] = orders[o]]_vars
    /\ [](\A o \in Orders :
             CountType(notes[o], "FILLED") + CountType(notes[o], "CANCELED") <= 1)

\* a partially filled order was cancelled by the user, and a tick then went
\* through a stale event of it: the order is as the cancellation left it
C27_Witness ==
    \E o \in Orders :
        /\ orders[o].state = "CANCELED"
        /\ orders[o].filled > 0
        /\ CountType(notes[o], "CANCELED") = 1
        /\ lastOp.applied # <<>>
        /\ \A k \in 1..Len(lastOp.applied) : lastOp.applied[k].norenordno = orders[o].id
        /\ Last(notes[o]).info = UserCancel

\* C28 as stated: once stop() has been called (the poller's stop flag, which
\* only stop() sets and nothing resets, is set), eof() answers true in every
\* later state.
C28_Original == monStop => brokerStop

====
